---- MODULE Spec2Model ----
(***************************************************************************)
(* Item resource service of kostadis/restserver: the repository functions  *)
(* of database/database.go over the items table, and the HTTP handlers of  *)
(* handlers/openapi_handlers.go (ItemAPIServer) and handlers/              *)
(* item_handlers.go (the *Handler functions).                              *)
(*                                                                         *)
(* A Go int (64 bit) is the record [hi, lo] standing for hi * 2^32 + lo    *)
(* with lo the signed low word, so that int32(v) is v.lo and int(x) is     *)
(* [hi |-> 0, lo |-> x].  A *string is a sequence of at most one string:   *)
(* <<>> is nil (JSON null or an absent field).                             *)
(***************************************************************************)
EXTENDS Integers, Sequences, FiniteSets, TLC

VARIABLES DB, pending, last, created, deleted, justDeleted, rewrote, ret

vars == <<DB, pending, last, created, deleted, justDeleted, rewrote, ret>>

----------------------------------------------------------------------------
(* Bounds of the model *)

\* number of INSERTs the model lets the store perform
MaxCreates == 2

\* the two request workers that may have an update in flight
Workers == {"w1", "w2"}

\* ids a request path may carry: every id the store can assign and one more
Ids == 1 .. (MaxCreates + 1)

Names == {"", "A", "B"}

\* values of a *string description field: nil, "", "d"
Descs == {<<>>, <<"">>, <<"d">>}

I64(hi, lo) == [hi |-> hi, lo |-> lo]

\* JSON numbers a client sends as priority: 0, 1, 2
WirePriorities == {I64(0, 0), I64(0, 1), I64(0, 2)}

\* outcome of the driver for one statement: no failure, db.Prepare fails,
\* stmt.Exec / QueryRow / Query fails (the statement has no effect)
Faults == {"none", "prepare", "exec"}

----------------------------------------------------------------------------
(* Go values *)

ErrNil == "nil"

\* sql.ErrNoRows
ErrNoRows == "sql: no rows in result set"

\* err.Error() of a driver failure
DriverErr(f) == IF f = "prepare" THEN "prepare failed" ELSE "exec failed"

\* int(x) for an int32 x
IntOfInt32(x) == I64(0, x)

\* v <= 0 for a Go int v
IntLeqZero(v) == v.hi < 0 \/ (v.hi = 0 /\ v.lo <= 0)

\* models.Item{}
ZeroItem == [ID |-> 0, Name |-> "", Description |-> "", Priority |-> I64(0, 0)]

\* a request body as sent: malformed JSON, or the members id, name,
\* description, priority (id 0: the body has no id member)
Bodies ==
  {[malformed |-> FALSE, id |-> 0, name |-> n, description |-> d, priority |-> p] :
      n \in Names, d \in Descs, p \in WirePriorities}
  \cup {[malformed |-> TRUE, id |-> 0, name |-> "", description |-> <<>>,
          priority |-> I64(0, 0)]}
  \cup {[malformed |-> FALSE, id |-> 1, name |-> "B", description |-> <<"d">>,
          priority |-> I64(0, 2)]}

NoBody ==
  [malformed |-> FALSE, id |-> 0, name |-> "", description |-> <<>>,
   priority |-> I64(0, 0)]

\* the id segment of a request path: a decimal integer or not
PathParams == {[ok |-> TRUE, id |-> i] : i \in Ids} \cup {[ok |-> FALSE, id |-> 0]}

----------------------------------------------------------------------------
(* database/database.go: the items table is DB.rows, a function from the   *)
(* ids of the rows to [name, description, priority]; DB.seq is the largest *)
(* id the table has ever assigned.                                         *)

\* the id the table gives the next inserted row
NextRowId(db) == db.seq + 1

CreateItemRowsAffected(db, item, f) ==
  IF f # "none"
    THEN [id |-> 0, err |-> DriverErr(f), db |-> db]
    ELSE LET id == NextRowId(db)
             row == [name |-> item.Name, description |-> item.Description,
                     priority |-> item.Priority]
         IN [id |-> 1, err |-> ErrNil,
             db |-> [rows |-> [i \in DOMAIN db.rows \cup {id} |->
                                 IF i = id THEN row ELSE db.rows[i]],
                     seq |-> id]]

CreateItem(db, item, f) ==
  IF f # "none"
    THEN [id |-> 0, err |-> DriverErr(f), db |-> db]
    ELSE LET id == NextRowId(db)
             row == [name |-> item.Name, description |-> item.Description,
                     priority |-> item.Priority]
         IN [id |-> id, err |-> ErrNil,
             db |-> [rows |-> [i \in DOMAIN db.rows \cup {id} |->
                                 IF i = id THEN row ELSE db.rows[i]],
                     seq |-> id]]

\* GetItem dropping the error of Scan: a missing row yields the zero item
GetItemIgnoresNoRows(db, id, f) ==
  IF f # "none"
    THEN [item |-> ZeroItem, err |-> DriverErr(f)]
    ELSE IF id \notin DOMAIN db.rows
      THEN [item |-> ZeroItem, err |-> ErrNil]
      ELSE [item |-> [ID |-> id, Name |-> db.rows[id].name,
                      Description |-> db.rows[id].description,
                      Priority |-> db.rows[id].priority],
            err |-> ErrNil]

GetItem(db, id, f) ==
  IF f # "none"
    THEN [item |-> ZeroItem, err |-> DriverErr(f)]
    ELSE IF id \notin DOMAIN db.rows
      THEN [item |-> ZeroItem, err |-> ErrNoRows]
      ELSE [item |-> [ID |-> id, Name |-> db.rows[id].name,
                      Description |-> db.rows[id].description,
                      Priority |-> db.rows[id].priority],
            err |-> ErrNil]

\* ScanRows calling rows.Next once before its loop: the first row is lost
ScanRowsSkipsFirst(db) ==
  LET ids == SelectSeq([i \in 1 .. db.seq |-> i], LAMBDA i : i \in DOMAIN db.rows)
  IN [k \in 1 .. (Len(ids) - 1) |-> GetItem(db, ids[k + 1], "none").item]

\* the rows in rowid order, as the items slice built by the rows.Next loop
ScanRows(db) ==
  LET ids == SelectSeq([i \in 1 .. db.seq |-> i], LAMBDA i : i \in DOMAIN db.rows)
  IN [k \in 1 .. Len(ids) |-> GetItem(db, ids[k], "none").item]

\* GetItems starting from an allocated empty slice instead of a nil one
GetItemsMakesSlice(db, f) ==
  IF f # "none"
    THEN [items |-> <<>>, isNil |-> TRUE, err |-> DriverErr(f)]
    ELSE [items |-> ScanRows(db), isNil |-> FALSE, err |-> ErrNil]

GetItems(db, f) ==
  IF f # "none"
    THEN [items |-> <<>>, isNil |-> TRUE, err |-> DriverErr(f)]
    ELSE LET items == ScanRows(db)
         IN [items |-> items, isNil |-> (Len(items) = 0), err |-> ErrNil]

\* UpdateItem as a field-level patch: an empty description keeps the old one
UpdateItemKeepsDescription(db, id, item, f) ==
  IF f # "none"
    THEN [n |-> 0, err |-> DriverErr(f), db |-> db]
    ELSE IF id \notin DOMAIN db.rows
      THEN [n |-> 0, err |-> ErrNoRows, db |-> db]
      ELSE [n |-> 1, err |-> ErrNil,
            db |-> [db EXCEPT !.rows[id] =
                      [name |-> item.Name,
                       description |-> IF item.Description = ""
                                         THEN db.rows[id].description
                                         ELSE item.Description,
                       priority |-> item.Priority]]]

\* UpdateItem as INSERT OR REPLACE: a missing row is created
UpdateItemUpsert(db, id, item, f) ==
  IF f # "none"
    THEN [n |-> 0, err |-> DriverErr(f), db |-> db]
    ELSE [n |-> 1, err |-> ErrNil,
          db |-> [db EXCEPT !.rows =
                    [i \in DOMAIN db.rows \cup {id} |->
                       IF i = id
                         THEN [name |-> item.Name, description |-> item.Description,
                               priority |-> item.Priority]
                         ELSE db.rows[i]]]]

\* UpdateItem with an UPDATE statement that has no WHERE clause
UpdateItemAllRows(db, id, item, f) ==
  IF f # "none"
    THEN [n |-> 0, err |-> DriverErr(f), db |-> db]
    ELSE IF DOMAIN db.rows = {}
      THEN [n |-> 0, err |-> ErrNoRows, db |-> db]
      ELSE [n |-> Cardinality(DOMAIN db.rows), err |-> ErrNil,
            db |-> [db EXCEPT !.rows =
                      [i \in DOMAIN db.rows |->
                         [name |-> item.Name, description |-> item.Description,
                          priority |-> item.Priority]]]]

\* UpdateItem without the rowsAffected == 0 check
UpdateItemNoRowsIsNil(db, id, item, f) ==
  IF f # "none"
    THEN [n |-> 0, err |-> DriverErr(f), db |-> db]
    ELSE IF id \notin DOMAIN db.rows
      THEN [n |-> 0, err |-> ErrNil, db |-> db]
      ELSE [n |-> 1, err |-> ErrNil,
            db |-> [db EXCEPT !.rows[id] =
                      [name |-> item.Name, description |-> item.Description,
                       priority |-> item.Priority]]]

\* UpdateItem on a store whose RowsAffected counts only rows whose values
\* changed
UpdateItemCountsChanges(db, id, item, f) ==
  LET row == [name |-> item.Name, description |-> item.Description,
              priority |-> item.Priority]
  IN IF f # "none"
       THEN [n |-> 0, err |-> DriverErr(f), db |-> db]
       ELSE IF id \notin DOMAIN db.rows \/ db.rows[id] = row
         THEN [n |-> 0, err |-> ErrNoRows, db |-> db]
         ELSE [n |-> 1, err |-> ErrNil, db |-> [db EXCEPT !.rows[id] = row]]

UpdateItem(db, id, item, f) ==
  IF f # "none"
    THEN [n |-> 0, err |-> DriverErr(f), db |-> db]
    ELSE IF id \notin DOMAIN db.rows
      THEN [n |-> 0, err |-> ErrNoRows, db |-> db]
      ELSE [n |-> 1, err |-> ErrNil,
            db |-> [db EXCEPT !.rows[id] =
                      [name |-> item.Name, description |-> item.Description,
                       priority |-> item.Priority]]]

\* DeleteItem reporting one affected row without removing it
DeleteItemKeepsRow(db, id, f) ==
  IF f # "none"
    THEN [n |-> 0, err |-> DriverErr(f), db |-> db]
    ELSE IF id \notin DOMAIN db.rows
      THEN [n |-> 0, err |-> ErrNoRows, db |-> db]
      ELSE [n |-> 1, err |-> ErrNil, db |-> db]

\* DeleteItem with a DELETE statement that has no WHERE clause
DeleteItemAllRows(db, id, f) ==
  IF f # "none"
    THEN [n |-> 0, err |-> DriverErr(f), db |-> db]
    ELSE IF DOMAIN db.rows = {}
      THEN [n |-> 0, err |-> ErrNoRows, db |-> db]
      ELSE [n |-> Cardinality(DOMAIN db.rows), err |-> ErrNil,
            db |-> [db EXCEPT !.rows = <<>>]]

DeleteItem(db, id, f) ==
  IF f # "none"
    THEN [n |-> 0, err |-> DriverErr(f), db |-> db]
    ELSE IF id \notin DOMAIN db.rows
      THEN [n |-> 0, err |-> ErrNoRows, db |-> db]
      ELSE [n |-> 1, err |-> ErrNil,
            db |-> [db EXCEPT !.rows = [i \in DOMAIN db.rows \ {id} |-> db.rows[i]]]]

----------------------------------------------------------------------------
(* JSON decoding of request bodies and path parameters *)

\* json.NewDecoder(r.Body).Decode(&item) into a models.Item: a null or absent
\* description leaves the zero value "", priority is a 64-bit int, an id
\* member lands in item.ID
DecodeModelsItem(body) ==
  IF body.malformed
    THEN [err |-> "unexpected EOF", item |-> ZeroItem]
    ELSE [err |-> ErrNil,
          item |-> [ID |-> body.id, Name |-> body.name,
                    Description |-> IF body.description = <<>> THEN ""
                                    ELSE body.description[1],
                    Priority |-> body.priority]]

\* Decode into an openapi.NewItem / openapi.UpdateItem: Description is a
\* *string, Priority an int32 (a number outside int32 is a decode error);
\* the structs have no id field, so an id member is dropped
DecodeOpenAPIItem(body) ==
  IF body.malformed
    THEN [err |-> "unexpected EOF", Name |-> "", Description |-> <<>>, Priority |-> 0]
    ELSE IF body.priority.hi # 0
      THEN [err |-> "cannot unmarshal number into Go struct field of type int32",
            Name |-> "", Description |-> <<>>, Priority |-> 0]
      ELSE [err |-> ErrNil, Name |-> body.name, Description |-> body.description,
            Priority |-> body.priority.lo]

\* strconv.ParseInt(idStr, 10, 64)
ParseInt(path) ==
  IF path.ok THEN [id |-> path.id, err |-> ErrNil]
  ELSE [id |-> 0, err |-> "invalid syntax"]

----------------------------------------------------------------------------
(* Response bodies.  An error body is {"error": error ++ cause}: error is  *)
(* the fixed text of the handler, cause the err.Error() it appends.  A     *)
(* JSON item is [id, name, description, priority] with description <<>>    *)
(* when the field is null or omitted.                                      *)

EmptyBody == [kind |-> "empty", error |-> "", cause |-> "", items |-> <<>>]

ErrorBody(msg, cause) == [kind |-> "error", error |-> msg, cause |-> cause, items |-> <<>>]

ItemBody(item) == [kind |-> "item", error |-> "", cause |-> "", items |-> <<item>>]

ListBody(items) == [kind |-> "list", error |-> "", cause |-> "", items |-> items]

\* JSON null: what encoding a nil slice writes
NullBody == [kind |-> "null", error |-> "", cause |-> "", items |-> <<>>]

\* json encoding of a models.Item
ModelsItemJSON(item) ==
  [id |-> item.ID, name |-> item.Name, description |-> <<item.Description>>,
   priority |-> item.Priority]

\* OpenAPIItemOfRow leaving Description nil for an empty description
OpenAPIItemOfRowOmitEmpty(dbItem) ==
  [id |-> dbItem.ID, name |-> dbItem.Name,
   description |-> IF dbItem.Description = "" THEN <<>> ELSE <<dbItem.Description>>,
   priority |-> IntOfInt32(dbItem.Priority.lo)]

\* openapi.Item built from a row read back: Description: &dbItem.Description,
\* Priority: int32(dbItem.Priority)
OpenAPIItemOfRow(dbItem) ==
  [id |-> dbItem.ID, name |-> dbItem.Name, description |-> <<dbItem.Description>>,
   priority |-> IntOfInt32(dbItem.Priority.lo)]

\* the fields the text of a validation message names
FieldsNamed(msg) ==
  IF msg = "Name is required" THEN {"name"}
  ELSE IF msg = "Priority must be a positive integer" THEN {"priority"}
  ELSE IF msg = "Name and a positive Priority are required" THEN {"name", "priority"}
  ELSE {}

----------------------------------------------------------------------------
(* Validation and normalisation in the handlers *)

\* ValidateOpenAPI with priority < 0 in place of priority <= 0
ValidateOpenAPIAllowsZero(rb) ==
  IF rb.Name = "" THEN "Name is required"
  ELSE IF rb.Priority < 0 THEN "Priority must be a positive integer"
  ELSE ""

\* ItemAPIServer.CreateItem / UpdateItemById: "" when the body passes
ValidateOpenAPI(rb) ==
  IF rb.Name = "" THEN "Name is required"
  ELSE IF rb.Priority <= 0 THEN "Priority must be a positive integer"
  ELSE ""

\* CreateItemHandler / UpdateItemHandler: "" when the item passes
ValidateModelsItem(item) ==
  IF item.Name = "" \/ IntLeqZero(item.Priority)
    THEN "Name and a positive Priority are required"
    ELSE ""

\* DbItemOfOpenAPI leaving Description at its zero value
DbItemOfOpenAPINoDescription(id, rb) ==
  [ID |-> id, Name |-> rb.Name, Description |-> "",
   Priority |-> IntOfInt32(rb.Priority)]

\* DbItemOfOpenAPI storing a nil description as the text "null"
DbItemOfOpenAPINilAsNull(id, rb) ==
  [ID |-> id, Name |-> rb.Name,
   Description |-> IF rb.Description # <<>> THEN rb.Description[1] ELSE "null",
   Priority |-> IntOfInt32(rb.Priority)]

\* dbItem of the OpenAPI handlers: nil description becomes ""
DbItemOfOpenAPI(id, rb) ==
  [ID |-> id, Name |-> rb.Name,
   Description |-> IF rb.Description # <<>> THEN rb.Description[1] ELSE "",
   Priority |-> IntOfInt32(rb.Priority)]

----------------------------------------------------------------------------
(* State.  DB is the store handle shared by all handlers.  last is the     *)
(* response most recently written and not yet delivered to its client      *)
(* (NoResp when there is none).  pending[w] is the update that worker w    *)
(* has in flight between its UPDATE statement and its re-fetch.  created,  *)
(* deleted and justDeleted record the history of the run: the ids returned *)
(* by 201 responses in order, the ids of 204 responses, and the id of the  *)
(* 204 response of the request handled immediately before (0 if none).     *)
(* rewrote tells whether the UPDATE statement of the Update in progress or *)
(* just answered found its row already holding the values it wrote.  ret   *)
(* is what the repository function called last by a direct caller (as the  *)
(* tests of database_test.go call it) returned; the handlers keep their    *)
(* return values in locals and leave ret alone.                            *)

NoResp ==
  [op |-> "none", handler |-> "", id |-> 0, req |-> NoBody, status |-> 0,
   body |-> EmptyBody, calls |-> 0, fault |-> "none"]

Resp(op, handler, id, req, status, body, calls, fault) ==
  [op |-> op, handler |-> handler, id |-> id, req |-> req, status |-> status,
   body |-> body, calls |-> calls, fault |-> fault]

NoPending == [active |-> FALSE, handler |-> "", id |-> 0, req |-> NoBody]

\* no repository function has been called directly
NoRet ==
  [fn |-> "", id |-> 0, fault |-> "none", n |-> 0, err |-> ErrNil,
   isNil |-> FALSE, items |-> <<>>]

Init ==
  /\ DB = [rows |-> <<>>, seq |-> 0]
  /\ pending = [w \in Workers |-> NoPending]
  /\ last = NoResp
  /\ created = <<>>
  /\ deleted = {}
  /\ justDeleted = 0
  /\ rewrote = FALSE
  /\ ret = NoRet

\* worker w can take a request: its previous response has been delivered
Ready(w) == last = NoResp /\ ~pending[w].active

\* the handler returns having written resp, the store being db2
Reply(db2, resp) ==
  /\ DB' = db2
  /\ last' = resp
  /\ created' = IF resp.op = "create" /\ resp.status = 201
                  THEN Append(created, resp.id) ELSE created
  /\ deleted' = IF resp.op = "delete" /\ resp.status = 204
                  THEN deleted \cup {resp.id} ELSE deleted
  /\ justDeleted' = IF resp.op = "delete" /\ resp.status = 204 THEN resp.id ELSE 0
  /\ rewrote' = IF resp.op = "update" /\ resp.calls = 2 THEN rewrote ELSE FALSE
  /\ UNCHANGED ret

\* the client reads the response
Deliver ==
  /\ last # NoResp
  /\ last' = NoResp
  /\ rewrote' = FALSE
  /\ UNCHANGED <<DB, pending, created, deleted, justDeleted, ret>>

----------------------------------------------------------------------------
(* handlers/item_handlers.go *)

CreateItemHandler(w, body, f) ==
  /\ Ready(w)
  /\ UNCHANGED pending
  /\ LET dec == DecodeModelsItem(body)
         item == dec.item
     IN IF dec.err # ErrNil
          THEN Reply(DB, Resp("create", "legacy", 0, body, 400,
                              ErrorBody("Invalid request payload: ", dec.err), 0, "none"))
        ELSE IF ValidateModelsItem(item) # ""
          THEN Reply(DB, Resp("create", "legacy", 0, body, 400,
                              ErrorBody(ValidateModelsItem(item), ""), 0, "none"))
        ELSE /\ DB.seq < MaxCreates
             /\ LET r == CreateItem(DB, item, f)
                IN IF r.err # ErrNil
                     THEN Reply(r.db, Resp("create", "legacy", 0, body, 500,
                                           ErrorBody("Failed to create item", ""), 1, f))
                     ELSE Reply(r.db, Resp("create", "legacy", r.id, body, 201,
                                           ItemBody(ModelsItemJSON([item EXCEPT !.ID = r.id])),
                                           1, f))

\* GetItemsHandler without the replacement of a nil slice by an empty one
GetItemsHandlerEncodesNil(w, f) ==
  /\ Ready(w)
  /\ UNCHANGED pending
  /\ LET r == GetItems(DB, f)
     IN IF r.err # ErrNil
          THEN Reply(DB, Resp("list", "legacy", 0, NoBody, 500,
                              ErrorBody("Failed to retrieve items", ""), 1, f))
          ELSE Reply(DB, Resp("list", "legacy", 0, NoBody, 200,
                              IF r.isNil THEN NullBody
                              ELSE ListBody([k \in 1 .. Len(r.items) |->
                                               ModelsItemJSON(r.items[k])]),
                              1, f))

GetItemsHandler(w, f) ==
  /\ Ready(w)
  /\ UNCHANGED pending
  /\ LET r == GetItems(DB, f)
         \* if items == nil { items = []models.Item{} }
         isNil == IF r.isNil THEN FALSE ELSE r.isNil
     IN IF r.err # ErrNil
          THEN Reply(DB, Resp("list", "legacy", 0, NoBody, 500,
                              ErrorBody("Failed to retrieve items", ""), 1, f))
          ELSE Reply(DB, Resp("list", "legacy", 0, NoBody, 200,
                              IF isNil THEN NullBody
                              ELSE ListBody([k \in 1 .. Len(r.items) |->
                                               ModelsItemJSON(r.items[k])]),
                              1, f))

GetItemHandler(w, path, f) ==
  /\ Ready(w)
  /\ UNCHANGED pending
  /\ LET p == ParseInt(path)
         r == GetItem(DB, p.id, f)
     IN IF p.err # ErrNil
          THEN Reply(DB, Resp("get", "legacy", 0, NoBody, 400,
                              ErrorBody("Invalid item ID format", ""), 0, "none"))
        ELSE IF r.err = ErrNoRows
          THEN Reply(DB, Resp("get", "legacy", p.id, NoBody, 404,
                              ErrorBody("Item not found", ""), 1, f))
        ELSE IF r.err # ErrNil
          THEN Reply(DB, Resp("get", "legacy", p.id, NoBody, 500,
                              ErrorBody("Failed to retrieve item", ""), 1, f))
        ELSE Reply(DB, Resp("get", "legacy", p.id, NoBody, 200,
                            ItemBody(ModelsItemJSON(r.item)), 1, f))

\* UpdateItemHandler up to and including the UPDATE statement
UpdateItemHandler(w, path, body, f) ==
  /\ Ready(w)
  /\ LET p == ParseInt(path)
         dec == DecodeModelsItem(body)
         item == [dec.item EXCEPT !.ID = p.id]
         r == UpdateItem(DB, p.id, item, f)
     IN IF p.err # ErrNil
          THEN /\ UNCHANGED pending
               /\ Reply(DB, Resp("update", "legacy", 0, body, 400,
                                 ErrorBody("Invalid item ID format", ""), 0, "none"))
        ELSE IF dec.err # ErrNil
          THEN /\ UNCHANGED pending
               /\ Reply(DB, Resp("update", "legacy", p.id, body, 400,
                                 ErrorBody("Invalid request payload: ", dec.err), 0, "none"))
        ELSE IF ValidateModelsItem(dec.item) # ""
          THEN /\ UNCHANGED pending
               /\ Reply(DB, Resp("update", "legacy", p.id, body, 400,
                                 ErrorBody(ValidateModelsItem(dec.item), ""), 0, "none"))
        ELSE IF r.err = ErrNoRows
          THEN /\ UNCHANGED pending
               /\ Reply(r.db, Resp("update", "legacy", p.id, body, 404,
                                   ErrorBody("Item not found to update", ""), 1, f))
        ELSE IF r.err # ErrNil
          THEN /\ UNCHANGED pending
               /\ Reply(r.db, Resp("update", "legacy", p.id, body, 500,
                                   ErrorBody("Failed to update item", ""), 1, f))
        ELSE IF r.n = 0
          THEN /\ UNCHANGED pending
               /\ Reply(r.db, Resp("update", "legacy", p.id, body, 404,
                                   ErrorBody("Item not found, no update occurred", ""), 1, f))
        ELSE /\ pending' = [pending EXCEPT ![w] =
                              [active |-> TRUE, handler |-> "legacy", id |-> p.id,
                               req |-> body]]
             /\ DB' = r.db
             /\ justDeleted' = 0
             /\ rewrote' = (r.db = DB)
             /\ UNCHANGED <<last, created, deleted, ret>>

\* UpdateItemHandler from the re-fetch on
UpdateItemHandlerRefetch(w, f) ==
  /\ last = NoResp
  /\ pending[w].active
  /\ pending[w].handler = "legacy"
  /\ pending' = [pending EXCEPT ![w] = NoPending]
  /\ LET id == pending[w].id
         body == pending[w].req
         r == GetItem(DB, id, f)
     IN IF r.err # ErrNil
          THEN Reply(DB, Resp("update", "legacy", id, body, 500,
                              ErrorBody("Item updated, but failed to retrieve confirmation", ""),
                              2, f))
          ELSE Reply(DB, Resp("update", "legacy", id, body, 200,
                              ItemBody(ModelsItemJSON(r.item)), 2, f))

\* DeleteItemHandler running its DELETE statement a second time when the
\* first attempt meets a driver failure
DeleteItemHandlerRetries(w, path, f) ==
  /\ Ready(w)
  /\ UNCHANGED pending
  /\ LET p == ParseInt(path)
         r1 == DeleteItem(DB, p.id, f)
         r == IF r1.err \notin {ErrNil, ErrNoRows}
                THEN DeleteItem(DB, p.id, "none") ELSE r1
         calls == IF r1.err \notin {ErrNil, ErrNoRows} THEN 2 ELSE 1
     IN IF p.err # ErrNil
          THEN Reply(DB, Resp("delete", "legacy", 0, NoBody, 400,
                              ErrorBody("Invalid item ID format", ""), 0, "none"))
        ELSE IF r.err = ErrNoRows \/ r.n = 0
          THEN Reply(r.db, Resp("delete", "legacy", p.id, NoBody, 404,
                                ErrorBody("Item not found to delete", ""), calls, f))
        ELSE Reply(r.db, Resp("delete", "legacy", p.id, NoBody, 204, EmptyBody,
                              calls, f))

DeleteItemHandler(w, path, f) ==
  /\ Ready(w)
  /\ UNCHANGED pending
  /\ LET p == ParseInt(path)
         r == DeleteItem(DB, p.id, f)
     IN IF p.err # ErrNil
          THEN Reply(DB, Resp("delete", "legacy", 0, NoBody, 400,
                              ErrorBody("Invalid item ID format", ""), 0, "none"))
        ELSE IF r.err = ErrNoRows
          THEN Reply(r.db, Resp("delete", "legacy", p.id, NoBody, 404,
                                ErrorBody("Item not found to delete", ""), 1, f))
        ELSE IF r.err # ErrNil
          THEN Reply(r.db, Resp("delete", "legacy", p.id, NoBody, 500,
                                ErrorBody("Failed to delete item", ""), 1, f))
        ELSE IF r.n = 0
          THEN Reply(r.db, Resp("delete", "legacy", p.id, NoBody, 404,
                                ErrorBody("Item not found, no deletion occurred", ""), 1, f))
        ELSE Reply(r.db, Resp("delete", "legacy", p.id, NoBody, 204, EmptyBody, 1, f))

----------------------------------------------------------------------------
(* handlers/openapi_handlers.go: the id is parsed by the generated wrapper *)

ItemAPIServer_GetItemById(w, id, f) ==
  /\ Ready(w)
  /\ UNCHANGED pending
  /\ LET r == GetItem(DB, id, f)
     IN IF r.err = ErrNoRows
          THEN Reply(DB, Resp("get", "openapi", id, NoBody, 404,
                              ErrorBody("Item not found", ""), 1, f))
        ELSE IF r.err # ErrNil
          THEN Reply(DB, Resp("get", "openapi", id, NoBody, 500,
                              ErrorBody("Failed to retrieve item: ", r.err), 1, f))
        ELSE Reply(DB, Resp("get", "openapi", id, NoBody, 200,
                            ItemBody(OpenAPIItemOfRow(r.item)), 1, f))

ItemAPIServer_CreateItem(w, body, f) ==
  /\ Ready(w)
  /\ UNCHANGED pending
  /\ LET requestBody == DecodeOpenAPIItem(body)
         dbItem == DbItemOfOpenAPI(0, requestBody)
     IN IF requestBody.err # ErrNil
          THEN Reply(DB, Resp("create", "openapi", 0, body, 400,
                              ErrorBody("Invalid request payload: ", requestBody.err),
                              0, "none"))
        ELSE IF ValidateOpenAPI(requestBody) # ""
          THEN Reply(DB, Resp("create", "openapi", 0, body, 400,
                              ErrorBody(ValidateOpenAPI(requestBody), ""), 0, "none"))
        ELSE /\ DB.seq < MaxCreates
             /\ LET r == CreateItem(DB, dbItem, f)
                IN IF r.err # ErrNil
                     THEN Reply(r.db, Resp("create", "openapi", 0, body, 500,
                                           ErrorBody("Failed to create item: ", r.err), 1, f))
                     ELSE Reply(r.db,
                                Resp("create", "openapi", r.id, body, 201,
                                     ItemBody([id |-> r.id, name |-> requestBody.Name,
                                               description |-> requestBody.Description,
                                               priority |-> IntOfInt32(requestBody.Priority)]),
                                     1, f))

\* UpdateItemById running its UPDATE statement before it validates the body
ItemAPIServer_UpdateItemByIdWriteFirst(w, id, body, f) ==
  /\ Ready(w)
  /\ LET requestBody == DecodeOpenAPIItem(body)
         dbItem == DbItemOfOpenAPI(id, requestBody)
         r == UpdateItem(DB, id, dbItem, f)
     IN IF requestBody.err # ErrNil
          THEN /\ UNCHANGED pending
               /\ Reply(DB, Resp("update", "openapi", id, body, 400,
                                 ErrorBody("Invalid request payload: ", requestBody.err),
                                 0, "none"))
        ELSE IF r.err = ErrNoRows
          THEN /\ UNCHANGED pending
               /\ Reply(r.db, Resp("update", "openapi", id, body, 404,
                                   ErrorBody("Item not found to update", ""), 1, f))
        ELSE IF r.err # ErrNil
          THEN /\ UNCHANGED pending
               /\ Reply(r.db, Resp("update", "openapi", id, body, 500,
                                   ErrorBody("Failed to update item: ", r.err), 1, f))
        ELSE IF ValidateOpenAPI(requestBody) # ""
          THEN /\ UNCHANGED pending
               /\ Reply(r.db, Resp("update", "openapi", id, body, 400,
                                   ErrorBody(ValidateOpenAPI(requestBody), ""), 1, f))
        ELSE /\ pending' = [pending EXCEPT ![w] =
                              [active |-> TRUE, handler |-> "openapi", id |-> id,
                               req |-> body]]
             /\ DB' = r.db
             /\ justDeleted' = 0
             /\ rewrote' = (r.db = DB)
             /\ UNCHANGED <<last, created, deleted, ret>>

\* UpdateItemById up to and including the UPDATE statement
ItemAPIServer_UpdateItemById(w, id, body, f) ==
  /\ Ready(w)
  /\ LET requestBody == DecodeOpenAPIItem(body)
         dbItem == DbItemOfOpenAPI(id, requestBody)
         r == UpdateItem(DB, id, dbItem, f)
     IN IF requestBody.err # ErrNil
          THEN /\ UNCHANGED pending
               /\ Reply(DB, Resp("update", "openapi", id, body, 400,
                                 ErrorBody("Invalid request payload: ", requestBody.err),
                                 0, "none"))
        ELSE IF ValidateOpenAPI(requestBody) # ""
          THEN /\ UNCHANGED pending
               /\ Reply(DB, Resp("update", "openapi", id, body, 400,
                                 ErrorBody(ValidateOpenAPI(requestBody), ""), 0, "none"))
        ELSE IF r.err = ErrNoRows
          THEN /\ UNCHANGED pending
               /\ Reply(r.db, Resp("update", "openapi", id, body, 404,
                                   ErrorBody("Item not found to update", ""), 1, f))
        ELSE IF r.err # ErrNil
          THEN /\ UNCHANGED pending
               /\ Reply(r.db, Resp("update", "openapi", id, body, 500,
                                   ErrorBody("Failed to update item: ", r.err), 1, f))
        ELSE IF r.n = 0
          THEN /\ UNCHANGED pending
               /\ Reply(r.db, Resp("update", "openapi", id, body, 404,
                                   ErrorBody("Item not found, or no changes made", ""), 1, f))
        ELSE /\ pending' = [pending EXCEPT ![w] =
                              [active |-> TRUE, handler |-> "openapi", id |-> id,
                               req |-> body]]
             /\ DB' = r.db
             /\ justDeleted' = 0
             /\ rewrote' = (r.db = DB)
             /\ UNCHANGED <<last, created, deleted, ret>>

\* UpdateItemById answering from the payload when the re-fetch fails
ItemAPIServer_UpdateItemByIdRefetchInMemory(w, f) ==
  /\ last = NoResp
  /\ pending[w].active
  /\ pending[w].handler = "openapi"
  /\ pending' = [pending EXCEPT ![w] = NoPending]
  /\ LET id == pending[w].id
         body == pending[w].req
         r == GetItem(DB, id, f)
         dbItem == IF r.err # ErrNil
                     THEN DbItemOfOpenAPI(id, DecodeOpenAPIItem(body))
                     ELSE r.item
     IN Reply(DB, Resp("update", "openapi", id, body, 200,
                       ItemBody(OpenAPIItemOfRow(dbItem)), 2, f))

\* UpdateItemById from the re-fetch on
ItemAPIServer_UpdateItemByIdRefetch(w, f) ==
  /\ last = NoResp
  /\ pending[w].active
  /\ pending[w].handler = "openapi"
  /\ pending' = [pending EXCEPT ![w] = NoPending]
  /\ LET id == pending[w].id
         body == pending[w].req
         r == GetItem(DB, id, f)
     IN IF r.err # ErrNil
          THEN Reply(DB, Resp("update", "openapi", id, body, 500,
                              ErrorBody("Item updated, but failed to retrieve confirmation: ",
                                        r.err), 2, f))
          ELSE Reply(DB, Resp("update", "openapi", id, body, 200,
                              ItemBody(OpenAPIItemOfRow(r.item)), 2, f))

----------------------------------------------------------------------------
(* Specifications.  Under Spec one worker serves the requests one after    *)
(* another, with every request body of Bodies.  Under SpecRace the two     *)
(* workers interleave at the statements of the store, with the bodies of   *)
(* RaceBodies.                                                             *)

Handle(w, bodies) ==
  \/ \E body \in bodies, f \in Faults : CreateItemHandler(w, body, f)
  \/ \E body \in bodies, f \in Faults : ItemAPIServer_CreateItem(w, body, f)
  \/ \E f \in Faults : GetItemsHandler(w, f)
  \/ \E path \in PathParams, f \in Faults : GetItemHandler(w, path, f)
  \/ \E id \in Ids, f \in Faults : ItemAPIServer_GetItemById(w, id, f)
  \/ \E path \in PathParams, body \in bodies, f \in Faults :
       UpdateItemHandler(w, path, body, f)
  \/ \E f \in Faults : UpdateItemHandlerRefetch(w, f)
  \/ \E id \in Ids, body \in bodies, f \in Faults :
       ItemAPIServer_UpdateItemById(w, id, body, f)
  \/ \E f \in Faults : ItemAPIServer_UpdateItemByIdRefetch(w, f)
  \/ \E path \in PathParams, f \in Faults : DeleteItemHandler(w, path, f)

Next == Deliver \/ Handle("w1", Bodies)

Spec == Init /\ [][Next]_vars

\* a body rejected by validation and two that pass it
RaceBodies ==
  {[malformed |-> FALSE, id |-> 0, name |-> "", description |-> <<>>,
    priority |-> I64(0, 1)],
   [malformed |-> FALSE, id |-> 0, name |-> "A", description |-> <<>>,
    priority |-> I64(0, 1)],
   [malformed |-> FALSE, id |-> 0, name |-> "B", description |-> <<"d">>,
    priority |-> I64(0, 2)]}

NextRace == Deliver \/ \E w \in Workers : Handle(w, RaceBodies)

SpecRace == Init /\ [][NextRace]_vars

\* a body rejected by validation, one that passes it, and one whose priority
\* 2^32 + 1 fits the int of models.Item but not an int32
WideBodies ==
  {[malformed |-> FALSE, id |-> 0, name |-> "", description |-> <<>>,
    priority |-> I64(0, 1)],
   [malformed |-> FALSE, id |-> 0, name |-> "B", description |-> <<"d">>,
    priority |-> I64(0, 2)],
   [malformed |-> FALSE, id |-> 0, name |-> "A", description |-> <<>>,
    priority |-> I64(1, 1)]}

NextWide == Deliver \/ Handle("w1", WideBodies)

\* one worker, with the bodies of WideBodies
SpecWide == Init /\ [][NextWide]_vars

\* SpecWide with the scheduling of a handler goroutine: an Update that has
\* run its UPDATE statement goes on to its re-fetch
SpecFair ==
  /\ Init /\ [][NextWide]_vars
  /\ WF_vars(\E f \in Faults : UpdateItemHandlerRefetch("w1", f))
  /\ WF_vars(\E f \in Faults : ItemAPIServer_UpdateItemByIdRefetch("w1", f))

----------------------------------------------------------------------------
(* Direct calls of the repository functions, as database_test.go makes     *)
(* them: no handler validates the item or interprets the result.           *)

\* the items a direct caller passes
RepoItems ==
  {[ID |-> 0, Name |-> n, Description |-> d, Priority |-> I64(0, 1)] :
      n \in {"", "A"}, d \in {"", "d"}}

\* what a direct call of fn returned
Ret(fn, id, f, n, err, isNil, items) ==
  [fn |-> fn, id |-> id, fault |-> f, n |-> n, err |-> err, isNil |-> isNil,
   items |-> items]

CallCreateItem(item, f) ==
  /\ f = "none" => DB.seq < MaxCreates
  /\ LET r == CreateItem(DB, item, f)
     IN /\ DB' = r.db
        /\ ret' = Ret("CreateItem", r.id, f, 0, r.err, FALSE, <<>>)
  /\ UNCHANGED <<pending, last, created, deleted, justDeleted, rewrote>>

CallGetItem(id, f) ==
  /\ LET r == GetItem(DB, id, f)
     IN ret' = Ret("GetItem", id, f, 0, r.err, FALSE, <<r.item>>)
  /\ UNCHANGED <<DB, pending, last, created, deleted, justDeleted, rewrote>>

CallGetItems(f) ==
  /\ LET r == GetItems(DB, f)
     IN ret' = Ret("GetItems", 0, f, 0, r.err, r.isNil, r.items)
  /\ UNCHANGED <<DB, pending, last, created, deleted, justDeleted, rewrote>>

CallUpdateItem(id, item, f) ==
  /\ LET r == UpdateItem(DB, id, item, f)
     IN /\ DB' = r.db
        /\ ret' = Ret("UpdateItem", id, f, r.n, r.err, FALSE, <<>>)
  /\ UNCHANGED <<pending, last, created, deleted, justDeleted, rewrote>>

CallDeleteItem(id, f) ==
  /\ LET r == DeleteItem(DB, id, f)
     IN /\ DB' = r.db
        /\ ret' = Ret("DeleteItem", id, f, r.n, r.err, FALSE, <<>>)
  /\ UNCHANGED <<pending, last, created, deleted, justDeleted, rewrote>>

NextRepo ==
  \/ \E item \in RepoItems, f \in Faults : CallCreateItem(item, f)
  \/ \E id \in Ids, f \in Faults : CallGetItem(id, f)
  \/ \E f \in Faults : CallGetItems(f)
  \/ \E id \in Ids, item \in RepoItems, f \in Faults : CallUpdateItem(id, item, f)
  \/ \E id \in Ids, f \in Faults : CallDeleteItem(id, f)

\* the repository functions called one after another on one store
SpecRepo == Init /\ [][NextRepo]_vars

----------------------------------------------------------------------------
(* Properties *)

\* the request body passes the validation of Create and Update
ValidBody(req) == ~req.malformed /\ req.name # "" /\ ~IntLeqZero(req.priority)

\* the description a request stores: "" when the field is nil
StoredDescription(req) == IF req.description = <<>> THEN "" ELSE req.description[1]

\* the models.Item a valid request body stands for, under id
ItemOfRequest(id, req) ==
  [ID |-> id, Name |-> req.name, Description |-> StoredDescription(req),
   Priority |-> req.priority]

\* C1: the ids returned by successful Creates are pairwise different, under
\* every interleaving of the requests of the two workers; the ids of deleted
\* items are among them, so no id is handed out again after its deletion.
C1_UniqueIds ==
  \A i, j \in 1 .. Len(created) : i # j => created[i] # created[j]

\* a Create has just returned id 2 after the item with id 1 was deleted
C1_Witness ==
  /\ last.op = "create" /\ last.status = 201 /\ last.id = 2
  /\ deleted = {1}

\* C2: right after a successful Create (no request handled since), GetItem on
\* the returned id finds a row with that id, the name and priority of the
\* request, and the request's description, or "" when it was omitted.
C2_CreateThenGet ==
  (last.op = "create" /\ last.status = 201) =>
     LET g == GetItem(DB, last.id, "none")
     IN g.err = ErrNil /\ g.item = ItemOfRequest(last.id, last.req)

\* an OpenAPI Create without description has just succeeded
C2_Witness ==
  /\ last.op = "create" /\ last.status = 201 /\ last.handler = "openapi"
  /\ last.req.description = <<>> /\ last.req.priority = I64(0, 2)
  /\ DB.rows[last.id].description = ""

\* C3: an Update with a well-formed path id that has no row is answered 400
\* when its body has an empty name or a priority <= 0, and is answered 404
\* only when its body passes validation.
C3_ValidationBeforeExistence ==
  (last.op = "update" /\ last.id # 0 /\ last.id \notin DOMAIN DB.rows) =>
     /\ (~last.req.malformed /\ (last.req.name = "" \/ IntLeqZero(last.req.priority)))
           => (last.status = 400 /\ FieldsNamed(last.body.error) # {})
     /\ last.status = 404 => ValidBody(last.req)

\* an Update with an empty name on an id that was never created got 400
C3_Witness ==
  /\ last.op = "update" /\ last.id = MaxCreates + 1 /\ last.req.name = ""
  /\ ~last.req.malformed /\ last.status = 400

\* C4: absent a driver failure, a Delete on an id that has a row answers 204
\* with an empty body, and a Delete on the id that the request handled
\* immediately before deleted answers 404.
C4_DeleteTwice ==
  [][ (last' # last /\ last'.op = "delete" /\ last'.id # 0 /\ last'.fault = "none") =>
        /\ last'.id \in DOMAIN DB.rows => (last'.status = 204 /\ last'.body = EmptyBody)
        /\ last'.id = justDeleted => (last'.status = 404 /\ last'.body.kind = "error")
    ]_vars

\* a Delete on an id deleted before has been answered 404
C4_Witness ==
  last.op = "delete" /\ last.status = 404 /\ last.id \in deleted

\* C5: after a successful Update (under Spec no other request runs between its
\* statements), the row holds exactly the name and priority of the payload and
\* its description, or "" when the payload omitted it; the same holds between
\* the UPDATE statement and the re-fetch.
C5_UpdateReplacesWholesale ==
  /\ (last.op = "update" /\ last.status = 200) =>
        LET g == GetItem(DB, last.id, "none")
        IN g.err = ErrNil /\ g.item = ItemOfRequest(last.id, last.req)
  /\ \A w \in Workers : pending[w].active =>
        GetItem(DB, pending[w].id, "none").item
           = ItemOfRequest(pending[w].id, pending[w].req)

\* an Update without description has succeeded on a row
C5_Witness ==
  /\ last.op = "update" /\ last.status = 200 /\ last.req.description = <<>>
  /\ last.req.name = "B" /\ DB.rows[last.id].description = ""

\* C6: a Create or Update (well-formed body and path id) with an empty name is
\* answered 400 with a message naming name; with a non-empty name and a
\* priority <= 0 it is answered 400 with a message naming priority.
C6_ValidationNamesField ==
  (last.op \in {"create", "update"} /\ ~last.req.malformed
     /\ (last.op = "update" => last.id # 0)) =>
     /\ last.req.name = "" =>
          (last.status = 400 /\ "name" \in FieldsNamed(last.body.error))
     /\ (last.req.name # "" /\ IntLeqZero(last.req.priority)) =>
          (last.status = 400 /\ "priority" \in FieldsNamed(last.body.error))

\* an OpenAPI Create with priority 0 and a name has been rejected
C6_Witness ==
  /\ last.op = "create" /\ last.handler = "openapi" /\ last.req.name = "A"
  /\ last.req.priority = I64(0, 0) /\ last.status = 400
  /\ last.body.error = "Priority must be a positive integer"

\* C7: a Create or Update answered 400 has made no call to the store and
\* has left the store as it was.
C7_RejectedLeavesStore ==
  [][ (last' # last /\ last'.op \in {"create", "update"} /\ last'.status = 400) =>
        (last'.calls = 0 /\ DB' = DB /\ GetItems(DB', "none") = GetItems(DB, "none"))
    ]_vars

\* an Update with priority 0 on an existing row has been rejected
C7_Witness ==
  /\ last.op = "update" /\ last.status = 400 /\ last.id \in DOMAIN DB.rows
  /\ last.req.name = "B" /\ last.req.priority = I64(0, 0)
  /\ DB.rows[last.id].name = "A"

\* C8: absent a driver failure, an Update with a valid body on a well-formed
\* id that has no row is answered 404 and leaves the store unchanged; an
\* Update goes on to its re-fetch only when the row existed.
C8_UpdateMissingIsNotFound ==
  [][ /\ (last' # last /\ last'.op = "update" /\ last'.calls < 2 /\ last'.id # 0
            /\ ValidBody(last'.req) /\ last'.fault = "none"
            /\ last'.id \notin DOMAIN DB.rows) =>
           (last'.status = 404 /\ DB' = DB)
      /\ \A w \in Workers : (pending'[w].active /\ ~pending[w].active) =>
           pending'[w].id \in DOMAIN DB.rows
    ]_vars

\* an Update with a valid body on the id of a deleted item has been answered 404
C8_Witness ==
  /\ last.op = "update" /\ last.status = 404 /\ last.id \in deleted
  /\ ValidBody(last.req)

\* C9: a GetByID (well-formed id) on an id without a row is answered 404
\* "Item not found", the repository error being sql.ErrNoRows; a driver
\* failure is answered 500; an id that has a row is never answered 404.
C9_GetNotFound ==
  (last.op = "get" /\ last.id # 0) =>
     /\ (last.fault = "none" /\ last.id \notin DOMAIN DB.rows) =>
          /\ last.status = 404
          /\ last.body = ErrorBody("Item not found", "")
          /\ GetItem(DB, last.id, "none").err = ErrNoRows
     /\ last.fault # "none" => last.status = 500
     /\ last.id \in DOMAIN DB.rows => last.status \in {200, 500}

\* a GetByID on an id without a row has been answered 404
C9_Witness ==
  /\ last.op = "get" /\ last.handler = "openapi" /\ last.status = 404
  /\ last.id \notin DOMAIN DB.rows

\* C10: an id whose Delete was answered 204 has no row in any later state:
\* GetItem on it returns sql.ErrNoRows, a GetByID on it is answered 404 and
\* no list contains it.
C10_DeletedStaysDeleted ==
  \A i \in deleted :
     /\ i \notin DOMAIN DB.rows
     /\ GetItem(DB, i, "none").err = ErrNoRows
     /\ \A k \in 1 .. Len(GetItems(DB, "none").items) :
           GetItems(DB, "none").items[k].ID # i
     /\ (last.op = "get" /\ last.id = i /\ last.fault = "none") => last.status = 404
     /\ (last.op = "list" /\ last.status = 200) =>
           \A k \in 1 .. Len(last.body.items) : last.body.items[k].id # i

\* after the Delete of item 1 and a later Create, a GetByID on 1 got 404
C10_Witness ==
  /\ 1 \in deleted /\ 2 \in DOMAIN DB.rows
  /\ last.op = "get" /\ last.id = 1 /\ last.status = 404

\* C11: an Update with a valid payload and a Delete, neither meeting a
\* failure of the store, are answered 200, 204 or 404 under every
\* interleaving of the statements of the two workers, never 500.  (The
\* interleaving UPDATE, DELETE, re-fetch of the same id refutes it: the
\* re-fetch finds no row and the Update is answered 500.)
C11_NeverInternalError ==
  (/\ last.op \in {"update", "delete"}
   /\ last.id # 0
   /\ last.fault = "none"
   /\ last.op = "update" => ValidBody(last.req)) =>
     last.status \in {200, 204, 404}

\* C12: when the UPDATE statement of an Update has changed the row and the
\* re-fetch fails, the Update is answered 500, as it is when the statement
\* itself fails, and the row holds the values of the payload.
C12_RefetchFailureKeepsWrite ==
  /\ (last.op = "update" /\ last.calls = 2 /\ last.fault # "none") =>
        /\ last.status = 500
        /\ GetItem(DB, last.id, "none") =
             [item |-> ItemOfRequest(last.id, last.req), err |-> ErrNil]
  /\ (last.op = "update" /\ last.calls = 1 /\ last.fault # "none") =>
        last.status = 500

\* the re-fetch of an Update through either handler has failed
C12_Witness ==
  /\ last.op = "update" /\ last.calls = 2 /\ last.fault = "exec"
  /\ last.status = 500 /\ last.handler = "openapi"
  /\ DB.rows[last.id].name = last.req.name

\* C13: every row of the table has a non-empty name and a priority > 0.
C13_RowsAreValid ==
  \A id \in DOMAIN DB.rows :
    DB.rows[id].name # "" /\ ~IntLeqZero(DB.rows[id].priority)

\* two rows are in the table, one of them just written by an Update
C13_Witness ==
  /\ Cardinality(DOMAIN DB.rows) = 2
  /\ last.op = "update" /\ last.status = 200

\* the request body with its description omitted where it was "" and ""
\* where it was omitted
Twin(req) ==
  [req EXCEPT !.description = IF @ = <<>> THEN <<"">> ELSE <<>>]

\* the models.Item the handler passes to the repository for a body
WrittenItem(handler, id, req) ==
  IF handler = "openapi"
    THEN DbItemOfOpenAPI(id, DecodeOpenAPIItem(req))
    ELSE [DecodeModelsItem(req).item EXCEPT !.ID = id]

\* C14: a Create or Update whose body omits the description (or gives null)
\* leaves the store in the state that the same request with description ""
\* leaves it in, and the other way round; the row's description is "".
C14_OmittedEqualsEmpty ==
  [][ /\ (/\ last' # last /\ last'.op = "create" /\ last'.status = 201
          /\ last'.req.description \in {<<>>, <<"">>}) =>
           /\ DB' = CreateItem(DB, WrittenItem(last'.handler, 0, Twin(last'.req)),
                               "none").db
           /\ DB'.rows[last'.id].description = ""
      /\ \A w \in Workers :
           (/\ pending'[w].active /\ ~pending[w].active
            /\ pending'[w].req.description \in {<<>>, <<"">>}) =>
             /\ DB' = UpdateItem(DB, pending'[w].id,
                                 WrittenItem(pending'[w].handler, pending'[w].id,
                                             Twin(pending'[w].req)), "none").db
             /\ DB'.rows[pending'[w].id].description = ""
    ]_vars

\* an Update that omits the description has been answered 200 on a row that
\* was created with a description
C14_Witness ==
  /\ last.op = "update" /\ last.status = 200 /\ last.handler = "openapi"
  /\ last.req.description = <<>> /\ last.req.id = 0
  /\ DB.rows[last.id].description = ""
  /\ \E i \in DOMAIN DB.rows : DB.rows[i].description = "d"

\* C15: every item in the body of a 200 answer of GetByID, List or Update
\* has a description member that is not null, equal to the description of
\* its row: a stored "" comes back as "".
C15_ReadDescriptionPresent ==
  (last.status = 200 /\ last.op \in {"get", "list", "update"}) =>
    \A k \in 1 .. Len(last.body.items) :
      LET it == last.body.items[k]
      IN /\ it.id \in DOMAIN DB.rows
         /\ it.description # <<>>
         /\ it.description = <<DB.rows[it.id].description>>

\* GetItemById has returned a row whose description is ""
C15_Witness ==
  /\ last.op = "get" /\ last.handler = "openapi" /\ last.status = 200
  /\ last.body.items[1].description = <<"">>

\* C16: a Create answered 201 returns an id > 0 and the item that a GetByID
\* on that id returns immediately afterwards, its description included.
\* (ItemAPIServer.CreateItem refutes it: it answers with the description
\* pointer of the request, nil when the request omitted the description.)
C16_CreateReturnsStoredItem ==
  (last.op = "create" /\ last.status = 201) =>
    LET g == GetItem(DB, last.id, "none")
    IN /\ last.id > 0
       /\ g.err = ErrNil
       /\ last.body = ItemBody(IF last.handler = "openapi"
                                 THEN OpenAPIItemOfRow(g.item)
                                 ELSE ModelsItemJSON(g.item))

\* C17: an Update answered 200 (under Spec no other writer runs between its
\* statements) returns the item whose id is the id of the path and whose
\* name, description and priority are those of the normalised payload; no
\* step of an Update adds or removes a row id or touches a row other than
\* the one of the path, whatever id member the body carries.
C17_UpdateReturnsPayload ==
  [][ /\ (last' # last /\ last'.op = "update" /\ last'.status = 200) =>
           last'.body = ItemBody([id |-> last'.id, name |-> last'.req.name,
                                  description |-> <<StoredDescription(last'.req)>>,
                                  priority |-> last'.req.priority])
      /\ (last' # last /\ last'.op = "update") =>
           /\ DOMAIN DB'.rows = DOMAIN DB.rows
           /\ \A i \in DOMAIN DB.rows \ {last'.id} : DB'.rows[i] = DB.rows[i]
      /\ \A w \in Workers : (pending'[w].active /\ ~pending[w].active) =>
           /\ DOMAIN DB'.rows = DOMAIN DB.rows
           /\ \A i \in DOMAIN DB.rows \ {pending'[w].id} : DB'.rows[i] = DB.rows[i]
    ]_vars

\* an Update of item 2 whose body carries "id": 1 has been answered 200
\* while item 1 exists
C17_Witness ==
  /\ last.op = "update" /\ last.status = 200 /\ last.handler = "legacy"
  /\ last.id = 2 /\ last.req.id = 1
  /\ last.body.items[1].id = 2
  /\ 1 \in DOMAIN DB.rows /\ DB.rows[1] # DB.rows[2]

\* C18: a List on a table without rows that meets no failure of the store
\* is answered 200 with the empty array [], not null and not an error.
C18_ListEmptyIsEmptyArray ==
  (last.op = "list" /\ last.fault = "none" /\ DOMAIN DB.rows = {}) =>
    last.status = 200 /\ last.body = ListBody(<<>>)

\* a List has been answered on a table emptied by a Delete
C18_Witness ==
  /\ last.op = "list" /\ last.status = 200 /\ DOMAIN DB.rows = {}
  /\ deleted # {} /\ last.body.kind = "list"

\* C19: the priority of a row written by a Create answered 201 or an Update
\* answered 200 is the priority of the payload, and the priority of every
\* item in a 200 answer of GetByID, List or Update is the priority of its
\* row.  (GetItemById refutes it: it converts the row's int to int32, so a
\* priority of 2^32 + 1 stored through CreateItemHandler or
\* UpdateItemHandler comes back as 1.)
C19_PriorityRoundTrip ==
  /\ (\/ last.op = "create" /\ last.status = 201
      \/ last.op = "update" /\ last.status = 200) =>
        /\ last.id \in DOMAIN DB.rows
        /\ DB.rows[last.id].priority = last.req.priority
  /\ (last.status = 200 /\ last.op \in {"get", "list", "update"}) =>
        \A k \in 1 .. Len(last.body.items) :
          /\ last.body.items[k].id \in DOMAIN DB.rows
          /\ last.body.items[k].priority = DB.rows[last.body.items[k].id].priority

\* C20: the body of a 500 answer is the fixed message of the handler and
\* nothing else, so two runs that differ only in the error text of the
\* failing statement are answered alike.  (The OpenAPI handlers refute it:
\* they append err.Error() to the message.)
C20_InternalErrorIsGeneric ==
  last.status = 500 => last.body = ErrorBody(last.body.error, "")

\* C21: every request is answered once, after at most two calls of the
\* store of which only the first can be a write (the second is the re-fetch
\* of an Update, which leaves the store as it is); a call that meets a
\* driver failure is the last call of its request, changes nothing and is
\* answered 500; an Update goes on to its re-fetch only after its UPDATE
\* statement has written the row; and an Update that has written is
\* eventually answered.
C21_NoRetry ==
  /\ [][ /\ (last' # last /\ last' # NoResp) =>
              /\ last = NoResp
              /\ ~pending'["w1"].active
              /\ last'.calls \in 0 .. 2
              /\ last'.calls = 0 => DB' = DB
              /\ last'.calls = 2 => (last'.op = "update" /\ DB' = DB)
              /\ last'.fault # "none" => (DB' = DB /\ last'.status = 500)
         /\ (pending'["w1"].active /\ ~pending["w1"].active) =>
              /\ last' = last
              /\ GetItem(DB', pending'["w1"].id, "none").item =
                   WrittenItem(pending'["w1"].handler, pending'["w1"].id,
                               pending'["w1"].req)
       ]_vars
  /\ (pending["w1"].active ~> (last.op = "update" /\ last.calls = 2))

\* the UPDATE statement of an Update on an existing row has met a driver
\* failure and the Update has been answered without a second call
C21_Witness ==
  /\ last.op = "update" /\ last.calls = 1 /\ last.fault # "none"
  /\ last.status = 500 /\ last.id \in DOMAIN DB.rows
  /\ ~pending["w1"].active

\* C22 (as stated): UpdateItem and DeleteItem, called on an id that matches
\* no row and meeting no driver failure, return the count 0 and no error.
C22_ZeroRowsIsNotAnError ==
  (ret.fn \in {"UpdateItem", "DeleteItem"} /\ ret.fault = "none" /\ ret.n = 0) =>
    ret.err = ErrNil

\* C22 (amended): UpdateItem and DeleteItem, called on an id that matches no
\* row and meeting no driver failure, return the count 0 together with the
\* error sql.ErrNoRows; a driver failure returns the count 0 with the
\* driver's error, which is not sql.ErrNoRows.
C22_ZeroRowsIsErrNoRows ==
  ret.fn \in {"UpdateItem", "DeleteItem"} =>
    /\ (ret.fault = "none" /\ ret.n = 0) =>
          (ret.err = ErrNoRows /\ ret.id \notin DOMAIN DB.rows)
    /\ ret.fault # "none" =>
          (ret.n = 0 /\ ret.err = DriverErr(ret.fault) /\ ret.err # ErrNoRows)

\* DeleteItem has returned 0 and sql.ErrNoRows for the id of a row deleted
\* before
C22_Witness ==
  /\ ret.fn = "DeleteItem" /\ ret.fault = "none"
  /\ ret.n = 0 /\ ret.err = ErrNoRows
  /\ ret.id <= DB.seq

\* C23: UpdateItem and DeleteItem, meeting no driver failure, return the
\* count 1 and no error when a row with the id is in the table as the
\* statement runs, and the count 0 with sql.ErrNoRows when none is; the
\* count is never greater than 1.
C23_CountIsRowExists ==
  [][ (ret'.fn \in {"UpdateItem", "DeleteItem"} /\ ret'.fault = "none") =>
        /\ ret'.n <= 1
        /\ IF ret'.id \in DOMAIN DB.rows
             THEN ret'.n = 1 /\ ret'.err = ErrNil
             ELSE ret'.n = 0 /\ ret'.err = ErrNoRows
    ]_vars

\* UpdateItem has returned 1 for one of two rows
C23_Witness ==
  /\ ret.fn = "UpdateItem" /\ ret.n = 1 /\ ret.err = ErrNil
  /\ Cardinality(DOMAIN DB.rows) = 2

\* C24 (as stated): GetItems on a table without rows, meeting no driver
\* failure, returns no error and an empty slice that is not nil.
C24_EmptyIsNotNil ==
  (ret.fn = "GetItems" /\ ret.fault = "none" /\ DOMAIN DB.rows = {}) =>
    (ret.err = ErrNil /\ Len(ret.items) = 0 /\ ~ret.isNil)

\* C24 (amended): GetItems on a table without rows, meeting no driver
\* failure, returns no error and the nil slice, which has no elements; on a
\* table with rows it returns a slice that is not nil, one item per row.
C24_EmptyIsNilSlice ==
  (ret.fn = "GetItems" /\ ret.fault = "none") =>
    /\ ret.err = ErrNil
    /\ Len(ret.items) = Cardinality(DOMAIN DB.rows)
    /\ ret.isNil <=> DOMAIN DB.rows = {}

\* GetItems has returned the nil slice for a table emptied by DeleteItem
C24_Witness ==
  /\ ret.fn = "GetItems" /\ ret.fault = "none" /\ ret.isNil
  /\ DB.seq > 0 /\ DOMAIN DB.rows = {}

\* the elements of a sequence
Range(seq) == {seq[k] : k \in 1 .. Len(seq)}

\* C25: the body of a List answered 200 holds one item for every row of the
\* table, with the row's id, name, description and priority, and nothing
\* else: no item of a deleted or never-created id.
C25_ListIsTheTable ==
  (last.op = "list" /\ last.status = 200) =>
    /\ last.body.kind = "list"
    /\ Len(last.body.items) = Cardinality(DOMAIN DB.rows)
    /\ \A id \in DOMAIN DB.rows :
         Cardinality({k \in 1 .. Len(last.body.items) :
                        last.body.items[k] =
                          ModelsItemJSON(GetItem(DB, id, "none").item)}) = 1
    /\ \A k \in 1 .. Len(last.body.items) :
         /\ last.body.items[k].id \in Range(created)
         /\ last.body.items[k].id \notin deleted

\* a List has returned the one item left after the Delete of item 1
C25_Witness ==
  /\ last.op = "list" /\ last.status = 200
  /\ Len(last.body.items) = 1 /\ last.body.items[1].id = 2
  /\ deleted = {1}

\* C26: a step of an Update or a Delete on an id leaves every row of another
\* id as it was, a Create leaves every row there was as it was, and a
\* GetByID or List leaves the whole store as it was.
C26_OtherRowsUntouched ==
  [][ LET touched ==
            IF last' # last /\ last'.op \in {"update", "delete"}
              THEN {last'.id}
              ELSE {pending'[w].id : w \in {v \in Workers :
                                              pending'[v].active /\ ~pending[v].active}}
      IN /\ \A i \in DOMAIN DB.rows \ touched :
              i \in DOMAIN DB'.rows /\ DB'.rows[i] = DB.rows[i]
         /\ (last' # last /\ last'.op \in {"get", "list"}) => DB' = DB
         /\ (last' # last /\ last'.op \in {"update", "delete"}) =>
              DOMAIN DB'.rows \subseteq DOMAIN DB.rows
    ]_vars

\* item 1 has been deleted while item 2 is in the table
C26_Witness ==
  /\ last.op = "delete" /\ last.status = 204 /\ last.id = 1
  /\ DOMAIN DB.rows = {2}

\* C27: the ids of the rows of the table are the ids returned by the Creates
\* answered 201 without the ids of the Deletes answered 204, and the number
\* of rows is the number of those Creates minus the number of those
\* Deletes, under every interleaving of the two workers.
C27_RowsAreCreatedMinusDeleted ==
  /\ DOMAIN DB.rows = Range(created) \ deleted
  /\ Cardinality(DOMAIN DB.rows) = Len(created) - Cardinality(deleted)

\* two Creates and one Delete have succeeded and an Update has been answered
C27_Witness ==
  /\ Len(created) = 2 /\ Cardinality(deleted) = 1
  /\ Cardinality(DOMAIN DB.rows) = 1
  /\ last.op = "update" /\ last.status = 200

\* C28: under every interleaving of the two workers, a Delete that meets no
\* driver failure is answered 204 exactly when the row is in the table as
\* its statement runs, and then no Delete of that id was answered 204 before
\* and the row is gone afterwards; every other Delete of the id is answered
\* 404 and changes nothing.
C28_OneDeleteWins ==
  [][ (last' # last /\ last'.op = "delete" /\ last'.id # 0 /\ last'.fault = "none") =>
        IF last'.id \in DOMAIN DB.rows
          THEN /\ last'.status = 204
               /\ last'.id \notin deleted
               /\ last'.id \notin DOMAIN DB'.rows
          ELSE last'.status = 404 /\ DB' = DB
    ]_vars

\* of two Deletes of the same id the second has been answered 404, the other
\* row being in the table
C28_Witness ==
  /\ last.op = "delete" /\ last.status = 404 /\ last.fault = "none"
  /\ last.id \in deleted /\ Len(created) = 2
  /\ Cardinality(DOMAIN DB.rows) = 1

\* the item a handler returns for a row
ItemView(handler, dbItem) ==
  IF handler = "openapi" THEN OpenAPIItemOfRow(dbItem) ELSE ModelsItemJSON(dbItem)

\* C29: under every interleaving of the two workers, the UPDATE statement of
\* an Update writes name, description and priority of its payload together,
\* and an Update whose re-fetch finds the row, without a driver failure, is
\* answered 200 with the row as it then is; when the other worker has an
\* Update of the same id in flight, that row is the whole payload of one of
\* the two Updates.
C29_ConcurrentUpdatesDoNotMix ==
  [][ \A w \in Workers :
        /\ (pending'[w].active /\ ~pending[w].active) =>
             GetItem(DB', pending'[w].id, "none").item =
               WrittenItem(pending'[w].handler, pending'[w].id, pending'[w].req)
        /\ (/\ pending[w].active /\ ~pending'[w].active
            /\ last'.fault = "none"
            /\ pending[w].id \in DOMAIN DB.rows) =>
             LET row == GetItem(DB, pending[w].id, "none").item
             IN /\ last'.status = 200
                /\ last'.body = ItemBody(ItemView(pending[w].handler, row))
                /\ \A v \in Workers \ {w} :
                     (pending[v].active /\ pending[v].id = pending[w].id) =>
                       row \in {ItemOfRequest(pending[w].id, pending[w].req),
                                ItemOfRequest(pending[v].id, pending[v].req)}
    ]_vars

\* an Update has been answered 200 with the payload of the other worker's
\* Update, which is still in flight
C29_Witness ==
  /\ last.op = "update" /\ last.status = 200
  /\ last.body.items[1].name # last.req.name
  /\ \E v \in Workers :
       /\ pending[v].active /\ pending[v].id = last.id
       /\ last.body.items[1].name = pending[v].req.name

\* C30: an Update with a valid payload that meets no driver failure, on an
\* id whose row is in the table (under Spec no Delete runs during it), is
\* answered 200, also when the row already held the values of the payload.
C30_UnchangedUpdateSucceeds ==
  (/\ last.op = "update" /\ ValidBody(last.req) /\ last.fault = "none"
   /\ last.id \in DOMAIN DB.rows) =>
     (last.status = 200 /\ last.calls = 2)

\* an Update whose UPDATE statement found the row already holding the
\* payload's values has been answered 200
C30_Witness ==
  /\ last.op = "update" /\ last.status = 200 /\ rewrote
  /\ GetItem(DB, last.id, "none").item = ItemOfRequest(last.id, last.req)

====
